---- MODULE Spec2Model ----
(***************************************************************************)
(* A model of src/app.py: two language-model endpoints take turns in a     *)
(* conversation that a Streamlit script drives.                            *)
(*                                                                         *)
(*   get_models         lists the model identifiers of a provider          *)
(*   generate_response  builds the request of one turn and decodes the     *)
(*                      streamed reply into text fragments                 *)
(*   main               the session: settings, Start, Stop and the turn    *)
(*                      (time limit, agent choice, accumulation, append)   *)
(*                                                                         *)
(* Text is a sequence of one-character strings, so that concatenation and  *)
(* str.strip() are computed.  A JSON value is a tagged record.  A Python   *)
(* exception that no handler of app.py catches ends the script run.        *)
(***************************************************************************)
EXTENDS Integers, Sequences, FiniteSets, TLC

VARIABLES
    provider,            \* st.session_state.provider
    ollama_host,         \* st.session_state.ollama_host
    oa_base_url,         \* st.session_state.oa_base_url
    oa_api_key,          \* st.session_state.oa_api_key
    agent1_model,        \* st.session_state.agent1_model
    agent2_model,        \* st.session_state.agent2_model
    topic,               \* the value of the topic text input
    turn_limit,          \* the value of the turn limit number input (minutes)
    messages,            \* st.session_state.messages
    running,             \* st.session_state.running
    start_time,          \* st.session_state.start_time
    finish_time,         \* st.session_state.finish_time
    now,                 \* datetime.now(), in seconds
    pc,                  \* where the script run of main() stands
    current_agent_name,  \* local of main
    current_agent_model, \* local of main
    full_response,       \* local of main
    request,             \* what generate_response posted for the turn in flight
    body,                \* what is left of the streamed reply
    yielded,             \* the fragments generate_response has yielded for this reply
    warnings,            \* number of logging.warning calls of the stream decoder
    notice,              \* the st.error / st.warning the last ended run emitted
    exit,                \* how the last turn of the script ended
    models,              \* the value get_models returned to main
    listing,             \* the reply of the provider's model listing endpoint
    dir_log,             \* the logging.error record of get_models, if any
    start_settings       \* history: the settings in effect at the last Start (the
                         \* program keeps no such copy)

vars ==
    << provider, ollama_host, oa_base_url, oa_api_key, agent1_model, agent2_model,
       topic, turn_limit, messages, running, start_time, finish_time, now, pc,
       current_agent_name, current_agent_model, full_response, request, body,
       yielded, warnings, notice, exit, models, listing, dir_log, start_settings >>

-----------------------------------------------------------------------------
(* Text *)

None == "None"

IsSpace(c) == c = " "

\* str.strip(): leading and trailing whitespace removed
RECURSIVE LStrip(_)
LStrip(s) ==
    IF s # << >> /\ IsSpace(Head(s)) THEN LStrip(Tail(s)) ELSE s

RECURSIVE RStrip(_)
RStrip(s) ==
    IF s # << >> /\ IsSpace(s[Len(s)]) THEN RStrip(SubSeq(s, 1, Len(s) - 1)) ELSE s

Strip(s) == RStrip(LStrip(s))

\* Python's `sub in s` for two strings
IsSubstring(sub, s) ==
    \E i \in 1..(Len(s) + 1) :
        /\ i + Len(sub) - 1 <= Len(s)
        /\ SubSeq(s, i, i + Len(sub) - 1) = sub

\* the dictionary keys the decoders and get_models look up, as text
KeyText(key) ==
    CASE key = "message" -> <<"m", "e", "s", "s", "a", "g", "e">>
      [] key = "content" -> <<"c", "o", "n", "t", "e", "n", "t">>
      [] key = "choices" -> <<"c", "h", "o", "i", "c", "e", "s">>
      [] key = "delta" -> <<"d", "e", "l", "t", "a">>
      [] OTHER -> <<"k">>

-----------------------------------------------------------------------------
(* JSON values, as json.loads returns them *)

JNull == [k |-> "null"]
JNum(n) == [k |-> "num", n |-> n]
JStr(s) == [k |-> "str", s |-> s]
JList(items) == [k |-> "list", items |-> items]
JObj(f) == [k |-> "obj", f |-> f]

EmptyObj == JObj(<< >>)

HasKey(v, key) == v.k = "obj" /\ key \in DOMAIN v.f

\* Python truthiness of a JSON value
Truthy(v) ==
    CASE v.k = "null" -> FALSE
      [] v.k = "num" -> v.n # 0
      [] v.k = "str" -> v.s # << >>
      [] v.k = "list" -> v.items # << >>
      [] v.k = "obj" -> DOMAIN v.f # {}

Ok(v) == [ok |-> TRUE, v |-> v]
Raise(e) == [ok |-> FALSE, e |-> e]

\* `key in v`: a key of a dict, an element of a list, a substring of a str;
\* TypeError for a value that is not iterable
PyIn(key, v) ==
    CASE v.k = "obj" -> Ok(key \in DOMAIN v.f)
      [] v.k = "list" -> Ok(\E i \in 1..Len(v.items) : v.items[i] = JStr(KeyText(key)))
      [] v.k = "str" -> Ok(IsSubstring(KeyText(key), v.s))
      [] OTHER -> Raise("TypeError")

\* `v[key]` with a str key: KeyError for a dict without it, TypeError otherwise
PyItem(v, key) ==
    IF v.k = "obj"
    THEN IF key \in DOMAIN v.f THEN Ok(v.f[key]) ELSE Raise("KeyError")
    ELSE Raise("TypeError")

\* `v[0]`
PyFirst(v) ==
    CASE v.k = "list" -> IF v.items = << >> THEN Raise("IndexError") ELSE Ok(v.items[1])
      [] v.k = "str" -> IF v.s = << >> THEN Raise("IndexError") ELSE Ok(JStr(<<v.s[1]>>))
      [] v.k = "obj" -> Raise("KeyError")
      [] OTHER -> Raise("TypeError")

\* `v.get(key, default)`: only a dict has the method
PyGet(v, key, default) ==
    IF v.k = "obj"
    THEN Ok(IF key \in DOMAIN v.f THEN v.f[key] ELSE default)
    ELSE Raise("AttributeError")

-----------------------------------------------------------------------------
(* The lines of a streamed reply, as response.iter_lines() gives them *)

EmptyLine == [t |-> "empty"]
TextLine == [t |-> "text"]
BytesLine == [t |-> "bytes"]
DoneLine(prefix) == [t |-> "done", prefix |-> prefix]
JsonLine(prefix, v) == [t |-> "json", prefix |-> prefix, v |-> v]
NetErr == [t |-> "neterr"]

Skip == [o |-> "skip"]
Warn == [o |-> "warn"]
Break == [o |-> "break"]
Yield(v) == [o |-> "yield", v |-> v]
Throw(e) == [o |-> "raise", e |-> e]
Transport == [o |-> "transport"]

-----------------------------------------------------------------------------
(* generate_response: the request *)

SYSTEM_PROMPT == <<"S">>

\* the first entry taken for the user's instead of the last
ModelMessagesFirstUser(msgs) ==
    [i \in 1..Len(msgs) |->
        [role |-> IF i = 1 THEN "user" ELSE "assistant",
         content |-> msgs[i].content]]

\* lines 64-67: the last entry of the history is the user's, all others the assistant's
ModelMessages(msgs) ==
    [i \in 1..Len(msgs) |->
        [role |-> IF i = Len(msgs) THEN "user" ELSE "assistant",
         content |-> msgs[i].content]]

\* lines 73-78 and 98-107: the url, the headers and the JSON payload that are posted
BuildRequest(prov, base, key, model, msgs) ==
    IF prov = "Ollama"
    THEN [provider |-> prov, base_url |-> base, api_key |-> None,
          model |-> model, messages |-> ModelMessages(msgs),
          stream |-> TRUE, system |-> SYSTEM_PROMPT]
    ELSE [provider |-> prov, base_url |-> base,
          api_key |-> IF key # "" THEN key ELSE None,
          model |-> model,
          messages |-> <<[role |-> "system", content |-> SYSTEM_PROMPT]>>
                           \o ModelMessages(msgs),
          stream |-> TRUE, system |-> None]

-----------------------------------------------------------------------------
(* generate_response: one line of the streamed reply *)

\* lines 87-91: `"message" in json_line and "content" in json_line["message"]`,
\* then the yield of json_line["message"]["content"]
OllamaJson(v) ==
    LET hasMsg == PyIn("message", v) IN
    IF ~hasMsg.ok THEN Throw(hasMsg.e)
    ELSE IF ~hasMsg.v THEN Skip
    ELSE LET msg == PyItem(v, "message") IN
         IF ~msg.ok THEN Throw(msg.e)
         ELSE LET hasContent == PyIn("content", msg.v) IN
              IF ~hasContent.ok THEN Throw(hasContent.e)
              ELSE IF ~hasContent.v THEN Skip
              ELSE LET content == PyItem(msg.v, "content") IN
                   IF content.ok THEN Yield(content.v) ELSE Throw(content.e)

\* lines 83-95: the line protocol
DecodeOllamaLine(line) ==
    CASE line.t = "neterr" -> Transport
      [] line.t = "empty" -> Skip
      [] line.t = "text" -> Warn
      [] line.t = "bytes" -> Throw("UnicodeDecodeError")
      [] line.t = "done" -> Warn
      [] line.t = "json" -> IF line.prefix THEN Warn ELSE OllamaJson(line.v)

\* lines 127-131: event.get("choices", [{}])[0].get("delta", {}).get("content")
SSEJson(v) ==
    LET choices == PyGet(v, "choices", JList(<<EmptyObj>>)) IN
    IF ~choices.ok THEN Throw(choices.e)
    ELSE LET first == PyFirst(choices.v) IN
         IF ~first.ok THEN Throw(first.e)
         ELSE LET delta == PyGet(first.v, "delta", EmptyObj) IN
              IF ~delta.ok THEN Throw(delta.e)
              ELSE LET content == PyGet(delta.v, "content", JNull) IN
                   IF ~content.ok THEN Throw(content.e)
                   ELSE IF Truthy(content.v) THEN Yield(content.v) ELSE Skip

\* lines 116-133: the SSE protocol
DecodeSSELine(line) ==
    CASE line.t = "neterr" -> Transport
      [] line.t = "empty" -> Skip
      [] line.t = "text" -> Warn
      [] line.t = "bytes" -> Warn
      [] line.t = "done" -> Break
      [] line.t = "json" -> SSEJson(line.v)

DecodeLine(prov, line) ==
    IF prov = "Ollama" THEN DecodeOllamaLine(line) ELSE DecodeSSELine(line)

-----------------------------------------------------------------------------
(* get_models *)

NoListing == [t |-> "none"]
ListingFailure == [t |-> "neterr"]
ListingJson(v) == [t |-> "json", v |-> v]

\* `for m in v`: the items of a list, the keys of a dict, the characters of a str;
\* TypeError for a value that is not iterable
PyIter(v) ==
    CASE v.k = "list" -> Ok(v.items)
      [] v.k = "obj" -> Ok([i \in 1..Cardinality(DOMAIN v.f) |-> JStr(<<"k">>)])
      [] v.k = "str" -> Ok([i \in 1..Len(v.s) |-> JStr(<<v.s[i]>>)])
      [] OTHER -> Raise("TypeError")

\* line 25: [m["name"] for m in ...]
RECURSIVE OllamaNames(_)
OllamaNames(items) ==
    IF items = << >> THEN Ok(<< >>)
    ELSE LET name == PyItem(Head(items), "name") IN
         IF ~name.ok THEN name
         ELSE LET rest == OllamaNames(Tail(items)) IN
              IF rest.ok THEN Ok(<<name.v>> \o rest.v) ELSE rest

\* lines 42-46: [m.get("id") for m in data["data"] if isinstance(m, dict) and m.get("id")]
RECURSIVE DataIds(_)
DataIds(items) ==
    IF items = << >> THEN << >>
    ELSE LET m == Head(items) IN
         (IF HasKey(m, "id") /\ Truthy(m.f["id"]) THEN <<m.f["id"]>> ELSE << >>)
             \o DataIds(Tail(items))

\* m.get("id") or m.get("name")
IdOrName(m) ==
    IF HasKey(m, "id") /\ Truthy(m.f["id"]) THEN m.f["id"]
    ELSE IF HasKey(m, "name") THEN m.f["name"] ELSE JNull

\* lines 49-53: the bare list
RECURSIVE ListIds(_)
ListIds(items) ==
    IF items = << >> THEN << >>
    ELSE LET m == Head(items) IN
         (IF m.k = "obj" /\ Truthy(IdOrName(m)) THEN <<IdOrName(m)>> ELSE << >>)
             \o ListIds(Tail(items))

Returned(ret) == [raised |-> None, ret |-> ret, log |-> None]
Raised(e) == [raised |-> e, ret |-> None, log |-> None]

\* lines 21-27
GetModelsOllama(reply) ==
    IF reply.t = "neterr" THEN [raised |-> None, ret |-> << >>, log |-> "error"]
    ELSE LET ms == PyItem(reply.v, "models") IN
         IF ~ms.ok THEN Raised(ms.e)
         ELSE LET items == PyIter(ms.v) IN
              IF ~items.ok THEN Raised(items.e)
              ELSE LET names == OllamaNames(items.v) IN
                   IF names.ok THEN Returned(names.v) ELSE Raised(names.e)

\* lines 29-54
GetModelsOpenAI(reply) ==
    IF reply.t = "neterr" THEN [raised |-> None, ret |-> << >>, log |-> "error"]
    ELSE LET data == reply.v IN
         IF HasKey(data, "data")
         THEN LET items == PyIter(data.f["data"]) IN
              IF items.ok THEN Returned(DataIds(items.v)) ELSE Raised(items.e)
         ELSE IF data.k = "list" THEN Returned(ListIds(data.items))
         ELSE Returned(<< >>)

\* lines 19-59: what the call returns or raises, and what it logs as an error
get_models(prov, reply) ==
    IF prov = "Ollama" THEN GetModelsOllama(reply) ELSE GetModelsOpenAI(reply)

-----------------------------------------------------------------------------
(* Bounds and input sets *)

MaxHistory == 2
MaxBody == 2
MaxTicks == 2
ClockStep == 60

NoTime == -1
SecondsPerMinute == 60

DEFAULT_OLLAMA_HOST == "http://localhost:11434"
DEFAULT_LM_STUDIO_BASE_URL == "http://localhost:1234/v1"

Providers == {"Ollama", "LM Studio", "Other"}
Hosts == {DEFAULT_OLLAMA_HOST, "http://gpu:11434"}
BaseUrls == {DEFAULT_LM_STUDIO_BASE_URL, "https://api.example/v1"}
ApiKeys == {"", "sk-1"}
Topics == {<< >>, <<"t">>}
ModelIds == {<<"a">>, <<"b">>}
Limits == {0, 1}

\* a well-formed line of the provider's protocol that carries the text s
FragmentLine(prov, s) ==
    IF prov = "Ollama"
    THEN JsonLine(FALSE, JObj([message |-> JObj([content |-> JStr(s)])]))
    ELSE JsonLine(TRUE,
             JObj([choices |-> JList(<<JObj([delta |-> JObj([content |-> JStr(s)])])>>)]))

\* the lines a reply is made of in the session: text and blank text, and what ends
\* the reading of the reply: a failure of the connection, a JSON line that is not
\* an object
TextLines(prov) == { FragmentLine(prov, <<"x">>), FragmentLine(prov, <<" ">>) }
LastLines(prov) == { NetErr, JsonLine(prov # "Ollama", JNum(5)) }

SeqsUpTo(S, n) == UNION { [1..m -> S] : m \in 0..n }

Replies(prov) ==
    SeqsUpTo(TextLines(prov), MaxBody)
        \cup { Append(b, l) : b \in SeqsUpTo(TextLines(prov), MaxBody - 1),
                              l \in LastLines(prov) }

-----------------------------------------------------------------------------
(* main: the session *)

NoRequest == [provider |-> None]
NoNotice == [kind |-> "none"]

Message(role, content) == [role |-> role, content |-> content]

\* lines 227-231: the models selected when the session begins
DefaultAgent1(ms) == IF ms # << >> THEN ms[1] ELSE << >>
DefaultAgent2(ms) ==
    IF Len(ms) > 1 THEN ms[2] ELSE IF ms # << >> THEN ms[1] ELSE << >>

\* the model lists of the first script run
FirstListings == { << >>, << <<"a">>, <<"b">> >> }

Init ==
    /\ provider \in {"Ollama", "Other"}
    /\ ollama_host = DEFAULT_OLLAMA_HOST
    /\ oa_base_url = DEFAULT_LM_STUDIO_BASE_URL
    /\ oa_api_key = ""
    /\ \E ms \in FirstListings :
           /\ agent1_model = DefaultAgent1(ms)
           /\ agent2_model = DefaultAgent2(ms)
    /\ topic = << >>
    /\ turn_limit \in Limits
    /\ messages = << >>
    /\ running = FALSE
    /\ start_time = NoTime
    /\ finish_time = NoTime
    /\ now = 0
    /\ pc = "top"
    /\ current_agent_name = None
    /\ current_agent_model = << >>
    /\ full_response = << >>
    /\ request = NoRequest
    /\ body = << >>
    /\ yielded = << >>
    /\ warnings = 0
    /\ notice = NoNotice
    /\ exit = "none"
    /\ models = << >>
    /\ listing = NoListing
    /\ dir_log = None
    /\ start_settings = None

settingsVars == << provider, ollama_host, oa_base_url, oa_api_key >>
agentVars == << agent1_model, agent2_model >>
runVars == << messages, running, start_time, finish_time >>
dirVars == << models, listing, dir_log >>

\* a script run that ends, or is replaced by a new one, loses its locals
DropLocals ==
    /\ current_agent_name' = None
    /\ current_agent_model' = << >>
    /\ full_response' = << >>
    /\ request' = NoRequest
    /\ body' = << >>
    /\ yielded' = << >>
    /\ warnings' = 0

KeepLocals ==
    UNCHANGED << current_agent_name, current_agent_model, full_response, request,
                 body, yielded, warnings >>

InTurn == pc \in {"precall", "stream", "decide"}

\* the history seeded with a message of the second agent
SeedHistoryAgent2(t) == << Message("Agent 2", t) >>

\* lines 299-305: the history a start seeds
SeedHistory(t) == << Message("Agent 1", t) >>

\* lines 290-306: the Start button
Start(t) ==
    /\ ~(t = << >> \/ running \/ ~(agent1_model # << >> /\ agent2_model # << >>))
    /\ topic' = t
    /\ running' = TRUE
    /\ start_time' = now
    /\ finish_time' = NoTime
    /\ messages' = SeedHistory(t)
    /\ pc' = "top"
    /\ DropLocals
    /\ notice' = NoNotice
    /\ exit' = "none"
    /\ start_settings' = settingsVars
    /\ UNCHANGED << settingsVars, agentVars, turn_limit, now, dirVars >>

\* lines 308-312: the Stop button.  The click either interrupts the script run in
\* flight (abort) or only sets the flag that the turn checks at lines 341, 364, 370.
Stop(abort) ==
    /\ running
    /\ running' = FALSE
    /\ finish_time' = now
    /\ IF abort \/ ~InTurn
       THEN /\ pc' = "top"
            /\ DropLocals
            /\ exit' = IF InTurn THEN "interrupted" ELSE exit
       ELSE /\ KeepLocals
            /\ UNCHANGED << pc, exit >>
    /\ UNCHANGED << settingsVars, agentVars, topic, turn_limit, messages, start_time,
                    now, notice, dirVars, start_settings >>

\* datetime.now() advances
Tick ==
    /\ now < MaxTicks * ClockStep
    /\ now' = now + ClockStep
    /\ UNCHANGED << settingsVars, agentVars, topic, turn_limit, runVars, pc, notice,
                    exit, dirVars, start_settings >>
    /\ KeepLocals

\* a widget other than the two buttons changes: the script runs anew from the top
NewRun ==
    /\ pc' = "top"
    /\ DropLocals
    /\ exit' = IF InTurn THEN "interrupted" ELSE exit
    /\ UNCHANGED << notice, now, topic, dirVars, start_settings >>

\* lines 273-275: the turn limit input
SetTurnLimit(l) ==
    /\ l # turn_limit
    /\ turn_limit' = l
    /\ NewRun
    /\ UNCHANGED << settingsVars, agentVars, runVars >>

\* lines 233-270: the two model inputs
SelectModel(a1, a2) ==
    /\ << a1, a2 >> # << agent1_model, agent2_model >>
    /\ agent1_model' = a1
    /\ agent2_model' = a2
    /\ NewRun
    /\ UNCHANGED << settingsVars, turn_limit, runVars >>

\* lines 163-217: the settings panel
ChangeSettings(p, host, base, key) ==
    /\ provider' = p
    /\ IF p = "Ollama"
       THEN /\ ollama_host' = host
            /\ UNCHANGED << oa_base_url, oa_api_key >>
       ELSE /\ oa_base_url' = base
            /\ oa_api_key' = IF p = "Other" THEN key ELSE oa_api_key
            /\ UNCHANGED ollama_host
    /\ settingsVars' # settingsVars
    /\ NewRun
    /\ UNCHANGED << agentVars, turn_limit, runVars >>

\* the limit taken to run out at the limit itself
TimedOutInclusive(limit, started, at) ==
    limit > 0 /\ (at - started) >= limit * SecondsPerMinute

\* lines 315-319: the time limit has run out
TimedOut(limit, started, at) ==
    limit > 0 /\ (at - started) > limit * SecondsPerMinute

\* the parity test the other way round
CurrentAgentNameSwapped(msgs) == IF Len(msgs) % 2 # 0 THEN "Agent 1" ELSE "Agent 2"

\* lines 326-331: whose turn it is
CurrentAgentName(msgs) == IF Len(msgs) % 2 # 0 THEN "Agent 2" ELSE "Agent 1"
CurrentAgentModel(msgs) == IF Len(msgs) % 2 # 0 THEN agent2_model ELSE agent1_model

\* lines 314-335: the turn begins, or the time limit ends the run
TurnBoundary ==
    /\ pc = "top"
    /\ running
    /\ IF TimedOut(turn_limit, start_time, now)
       THEN /\ running' = FALSE
            /\ finish_time' = now
            /\ notice' = [kind |-> "warning", about |-> "timeout"]
            /\ exit' = "timeout"
            /\ pc' = "top"
            /\ DropLocals
            /\ UNCHANGED << messages, start_time >>
       ELSE /\ current_agent_name' = CurrentAgentName(messages)
            /\ current_agent_model' = CurrentAgentModel(messages)
            /\ full_response' = << >>
            /\ pc' = "precall"
            /\ UNCHANGED << runVars, notice, exit, request, body, yielded, warnings >>
    /\ UNCHANGED << settingsVars, agentVars, topic, turn_limit, now, dirVars,
                    start_settings >>

\* line 314 when no run is active: the script run ends and waits for a widget
Idle ==
    /\ pc = "top"
    /\ ~running
    /\ pc' = "wait"
    /\ UNCHANGED << settingsVars, agentVars, topic, turn_limit, runVars, now, notice,
                    exit, dirVars, start_settings >>
    /\ KeepLocals

\* lines 345-352: the provider, base url and key of the call
ProviderName == IF provider = "Ollama" THEN "Ollama" ELSE "OpenAI"
ActiveBase == IF provider = "Ollama" THEN ollama_host ELSE oa_base_url
ActiveKey == IF provider = "Ollama" THEN "" ELSE oa_api_key

\* lines 337-360 and 62-82, 98-115: the stop check before the call, then the request
PreCall ==
    /\ pc = "precall"
    /\ IF ~running
       THEN /\ pc' = "top"
            /\ exit' = "stopped"
            /\ DropLocals
       ELSE /\ request' = BuildRequest(ProviderName, ActiveBase, ActiveKey,
                                       current_agent_model, messages)
            /\ \E b \in Replies(ProviderName) : body' = b
            /\ yielded' = << >>
            /\ warnings' = 0
            /\ pc' = "stream"
            /\ UNCHANGED << current_agent_name, current_agent_model, full_response,
                            exit >>
    /\ UNCHANGED << settingsVars, agentVars, topic, turn_limit, runVars, now, notice,
                    dirVars, start_settings >>

\* an exception that nothing catches ends the script run; the session state stays
Crash ==
    /\ pc' = "wait"
    /\ exit' = "exception"
    /\ DropLocals
    /\ UNCHANGED << runVars, notice >>

\* the handler that forgets to end the run
TransportErrorKeepsRunning ==
    /\ notice' = [kind |-> "error", about |-> "transport"]
    /\ pc' = "top"
    /\ exit' = "transport"
    /\ DropLocals
    /\ UNCHANGED runVars

\* the handler that records an end instant
TransportErrorStamped ==
    /\ notice' = [kind |-> "error", about |-> "transport"]
    /\ running' = FALSE
    /\ finish_time' = now
    /\ pc' = "top"
    /\ exit' = "transport"
    /\ DropLocals
    /\ UNCHANGED << messages, start_time >>

\* the failure swallowed: the loop ends as if the reply had ended
TransportErrorSwallowed ==
    /\ notice' = [kind |-> "error", about |-> "transport"]
    /\ pc' = "decide"
    /\ body' = << >>
    /\ UNCHANGED << runVars, exit, current_agent_name, current_agent_model,
                    full_response, request, yielded, warnings >>

\* lines 134-140: the handler of requests.exceptions.RequestException
TransportError ==
    /\ notice' = [kind |-> "error", about |-> "transport"]
    /\ running' = FALSE
    /\ pc' = "top"
    /\ exit' = "transport"
    /\ DropLocals
    /\ UNCHANGED << messages, start_time, finish_time >>

\* the stop flag not looked at between fragments
StoppedMidStreamIgnored == FALSE

\* line 364: the stop button was pressed during generation
StoppedMidStream == ~running

\* the fragment put before the response
AccumulateReversed(v) ==
    IF v.k # "str" THEN Crash
    ELSE /\ full_response' = v.s \o full_response
         /\ yielded' = Append(yielded, v)
         /\ IF StoppedMidStream
            THEN pc' = "decide" /\ body' = << >>
            ELSE pc' = "stream" /\ body' = Tail(body)
         /\ UNCHANGED << runVars, notice, exit, current_agent_name,
                         current_agent_model, request, warnings >>

\* lines 361-365: the fragment is accumulated, then the stop flag is checked
Accumulate(v) ==
    IF v.k # "str" THEN Crash
    ELSE /\ full_response' = full_response \o v.s
         /\ yielded' = Append(yielded, v)
         /\ IF StoppedMidStream
            THEN pc' = "decide" /\ body' = << >>
            ELSE pc' = "stream" /\ body' = Tail(body)
         /\ UNCHANGED << runVars, notice, exit, current_agent_name,
                         current_agent_model, request, warnings >>

\* lines 83-95, 116-133 and 354-367: the next line of the reply, or its end
StreamStep ==
    /\ pc = "stream"
    /\ IF body = << >>
       THEN /\ pc' = "decide"
            /\ UNCHANGED << runVars, notice, exit >>
            /\ KeepLocals
       ELSE LET out == DecodeLine(request.provider, Head(body)) IN
            CASE out.o = "transport" -> TransportError
              [] out.o = "raise" -> Crash
              [] out.o = "break" ->
                     /\ pc' = "decide"
                     /\ body' = << >>
                     /\ UNCHANGED << runVars, notice, exit, current_agent_name,
                                     current_agent_model, full_response, request,
                                     yielded, warnings >>
              [] out.o = "yield" -> Accumulate(out.v)
              [] OTHER ->
                     /\ body' = Tail(body)
                     /\ warnings' = IF out.o = "warn" THEN warnings + 1 ELSE warnings
                     /\ UNCHANGED << pc, runVars, notice, exit, current_agent_name,
                                     current_agent_model, full_response, request,
                                     yielded >>
    /\ UNCHANGED << settingsVars, agentVars, topic, turn_limit, now, dirVars,
                    start_settings >>

\* only the empty response refused
IsBlankNoStrip(s) == s = << >>

\* line 372: the response is empty or blank
IsBlank(s) == s = << >> \/ Strip(s) = << >>

\* the stop flag not looked at
NotStoppedIgnored == TRUE

\* the time limit looked at when the reply has ended
NotStoppedWithinLimit == running /\ ~TimedOut(turn_limit, start_time, now)

\* the message put before the history
PrependMessage(msgs, m) == << m >> \o msgs

\* lines 382-388: st.session_state.messages.append
AppendMessage(msgs, m) == Append(msgs, m)

\* line 370: the run was not stopped while the response was generated
NotStopped == running

\* lines 369-389: the response is validated and appended, unless the run was stopped
Decide ==
    /\ pc = "decide"
    /\ IF NotStopped
       THEN IF IsBlank(full_response)
            THEN /\ notice' = [kind |-> "error", about |-> "empty",
                               agent |-> current_agent_name,
                               model |-> current_agent_model]
                 /\ running' = FALSE
                 /\ exit' = "empty"
                 /\ pc' = "top"
                 /\ UNCHANGED << messages, start_time, finish_time >>
            ELSE /\ Len(messages) < MaxHistory
                 /\ messages' = AppendMessage(messages,
                                    Message(current_agent_name, full_response))
                 /\ exit' = "appended"
                 /\ pc' = "top"
                 /\ UNCHANGED << running, start_time, finish_time, notice >>
       ELSE /\ pc' = "wait"
            /\ exit' = "discarded"
            /\ UNCHANGED << runVars, notice >>
    /\ DropLocals
    /\ UNCHANGED << settingsVars, agentVars, topic, turn_limit, now, dirVars,
                    start_settings >>

Next ==
    \/ \E t \in Topics : Start(t)
    \/ \E abort \in BOOLEAN : Stop(abort)
    \/ Tick
    \/ TurnBoundary
    \/ Idle
    \/ PreCall
    \/ StreamStep
    \/ Decide

Spec == Init /\ [][Next]_vars

-----------------------------------------------------------------------------
(* The stream decoders over the lines a provider can send *)

Msg(v) == JObj([message |-> v])
Choices(v) == JObj([choices |-> v])
Delta(v) == JObj([delta |-> v])
Content(v) == JObj([content |-> v])

OllamaLines ==
    { EmptyLine, TextLine, BytesLine, DoneLine(FALSE), NetErr,
      JsonLine(TRUE, Msg(Content(JStr(<<"x">>)))),
      JsonLine(FALSE, JNum(5)),
      JsonLine(FALSE, JStr(<<"x">>)),
      JsonLine(FALSE, JStr(KeyText("message"))),
      JsonLine(FALSE, JList(<< >>)),
      JsonLine(FALSE, EmptyObj),
      JsonLine(FALSE, Msg(JNull)),
      JsonLine(FALSE, Msg(EmptyObj)),
      JsonLine(FALSE, Msg(Content(JNull))),
      JsonLine(FALSE, Msg(Content(JStr(<< >>)))),
      JsonLine(FALSE, Msg(Content(JStr(<<" ">>)))),
      JsonLine(FALSE, Msg(Content(JStr(<<"x">>)))) }

SSELines ==
    { EmptyLine, TextLine, BytesLine, DoneLine(TRUE), DoneLine(FALSE), NetErr,
      JsonLine(TRUE, JNum(5)),
      JsonLine(TRUE, JList(<< >>)),
      JsonLine(TRUE, EmptyObj),
      JsonLine(TRUE, Choices(JList(<< >>))),
      JsonLine(TRUE, Choices(JList(<<EmptyObj>>))),
      JsonLine(TRUE, Choices(JList(<<Delta(JNull)>>))),
      JsonLine(TRUE, Choices(JList(<<Delta(EmptyObj)>>))),
      JsonLine(TRUE, Choices(JList(<<Delta(Content(JNull))>>))),
      JsonLine(TRUE, Choices(JList(<<Delta(Content(JNum(5)))>>))),
      JsonLine(TRUE, Choices(JList(<<Delta(Content(JStr(<< >>)))>>))),
      JsonLine(TRUE, Choices(JList(<<Delta(Content(JStr(<<" ">>)))>>))),
      JsonLine(TRUE, Choices(JList(<<Delta(Content(JStr(<<"x">>)))>>))),
      JsonLine(FALSE, Choices(JList(<<Delta(Content(JStr(<<"y">>)))>>))),
      JsonLine(TRUE, Choices(JList(<<Delta(Content(JStr(<<"x">>))),
                                      Delta(Content(JStr(<<"y">>)))>>))) }

StreamLines(prov) == IF prov = "Ollama" THEN OllamaLines ELSE SSELines

\* a turn of Agent 2 whose request has just been posted, for any reply
StreamInit ==
    /\ provider \in {"Ollama", "Other"}
    /\ ollama_host = DEFAULT_OLLAMA_HOST
    /\ oa_base_url = DEFAULT_LM_STUDIO_BASE_URL
    /\ oa_api_key = ""
    /\ agent1_model = <<"a">>
    /\ agent2_model = <<"b">>
    /\ topic = <<"t">>
    /\ turn_limit = 0
    /\ messages = << Message("Agent 1", <<"t">>) >>
    /\ running = TRUE
    /\ start_time = 0
    /\ finish_time = NoTime
    /\ now = 0
    /\ pc = "stream"
    /\ current_agent_name = CurrentAgentName(messages)
    /\ current_agent_model = CurrentAgentModel(messages)
    /\ full_response = << >>
    /\ request = BuildRequest(ProviderName, ActiveBase, ActiveKey,
                              current_agent_model, messages)
    /\ body \in SeqsUpTo(StreamLines(ProviderName), MaxBody)
    /\ yielded = << >>
    /\ warnings = 0
    /\ notice = NoNotice
    /\ exit = "none"
    /\ models = << >>
    /\ listing = NoListing
    /\ dir_log = None
    /\ start_settings = None

StreamNext == StreamStep \/ Decide

SpecStream == StreamInit /\ [][StreamNext]_vars

-----------------------------------------------------------------------------
(* The model directory over the replies a provider can send *)

MaxEntries == 3

IdA == JStr(<<"a">>)
IdB == JStr(<<"b">>)
IdC == JStr(<<"c">>)

DirEntries ==
    { JObj([id |-> IdA]), JObj([id |-> IdB]), JObj([name |-> IdA]),
      JObj([name |-> IdC]), JObj([id |-> IdB, name |-> IdC]),
      JObj([id |-> JStr(<< >>)]), JObj([name |-> JNull]), EmptyObj, IdA }

EntryLists == SeqsUpTo(DirEntries, MaxEntries)

Listings ==
    { ListingFailure }
        \cup { ListingJson(JObj([models |-> JList(es)])) : es \in EntryLists }
        \cup { ListingJson(JObj([data |-> JList(es)])) : es \in EntryLists }
        \cup { ListingJson(JList(es)) : es \in EntryLists }
        \cup { ListingJson(EmptyObj), ListingJson(JNull),
               ListingJson(JObj([models |-> JNull])), ListingJson(JObj([data |-> JNull])) }

\* the session before any run, under any provider setting
DirInit ==
    /\ provider \in Providers
    /\ ollama_host = DEFAULT_OLLAMA_HOST
    /\ oa_base_url = DEFAULT_LM_STUDIO_BASE_URL
    /\ oa_api_key = ""
    /\ agent1_model = << >>
    /\ agent2_model = << >>
    /\ topic = << >>
    /\ turn_limit = 0
    /\ messages = << >>
    /\ running = FALSE
    /\ start_time = NoTime
    /\ finish_time = NoTime
    /\ now = 0
    /\ pc = "top"
    /\ current_agent_name = None
    /\ current_agent_model = << >>
    /\ full_response = << >>
    /\ request = NoRequest
    /\ body = << >>
    /\ yielded = << >>
    /\ warnings = 0
    /\ notice = NoNotice
    /\ exit = "none"
    /\ models = << >>
    /\ listing = NoListing
    /\ dir_log = None
    /\ start_settings = None

\* lines 235, 245, 254, 264: the model inputs are free text when no model is listed
FreeTextEntry(ms) == ms = << >>

\* lines 219-231: the first script run lists the models of the current provider
\* and, the session holding no agent model yet, takes the defaults from the list
FetchModels(reply) ==
    LET r == get_models(ProviderName, reply) IN
    /\ listing = NoListing
    /\ listing' = reply
    /\ dir_log' = r.log
    /\ IF r.raised # None
       THEN /\ models' = << >>
            /\ pc' = "wait"
            /\ exit' = "exception"
            /\ UNCHANGED agentVars
       ELSE /\ models' = r.ret
            /\ agent1_model' = DefaultAgent1(r.ret)
            /\ agent2_model' = DefaultAgent2(r.ret)
            /\ pc' = "top"
            /\ exit' = "listed"
    /\ UNCHANGED << settingsVars, topic, turn_limit, runVars, now, notice,
                    start_settings >>
    /\ KeepLocals

DirNext == \E reply \in Listings : FetchModels(reply)

SpecDirectory == DirInit /\ [][DirNext]_vars

-----------------------------------------------------------------------------
(* The session with its settings panel: the turns of Spec without the clock, and
   the provider, host, base url and key inputs, which are enabled at all times *)

SettingsNext ==
    \/ \E t \in Topics : Start(t)
    \/ \E abort \in BOOLEAN : Stop(abort)
    \/ TurnBoundary
    \/ Idle
    \/ PreCall
    \/ StreamStep
    \/ Decide
    \/ \E p \in Providers, host \in Hosts, base \in BaseUrls, key \in ApiKeys :
           ChangeSettings(p, host, base, key)

\* a session whose two models are set and whose turn limit is 0
SettingsInit == Init /\ turn_limit = 0 /\ agent1_model # << >>

SpecSettings == SettingsInit /\ [][SettingsNext]_vars

-----------------------------------------------------------------------------
(* Properties of the session (Spec) *)

RoleAt(i) == IF i % 2 = 0 THEN "Agent 1" ELSE "Agent 2"
ModelOf(name) == IF name = "Agent 2" THEN agent2_model ELSE agent1_model
AllSpaces(s) == \A i \in 1..Len(s) : s[i] = " "
Elapsed == now - start_time

\* C1: the message at index i (from 0) is Agent 1's when i is even and Agent 2's
\* when i is odd, and the agent chosen for a history of length n is Agent 1 when n
\* is even and Agent 2 when n is odd.
C1_Alternation ==
    /\ \A i \in 1..Len(messages) : messages[i].role = RoleAt(i - 1)
    /\ InTurn => current_agent_name = RoleAt(Len(messages))

C1_Witness ==
    /\ Len(messages) = 2
    /\ pc = "stream"
    /\ current_agent_name = "Agent 1"
    /\ messages[2].role = "Agent 2"
    /\ running

\* C2: from the beginning of a turn on, no step changes the history while the turn
\* goes on or once the run is stopped; a stop at any point of the turn leaves the
\* history as it was when the turn began, and the partial response is dropped.
C2_StopNeverAppends ==
    [][(InTurn /\ (InTurn' \/ ~running'))
          => (messages' = messages /\ (~InTurn' => full_response' = << >>))]_vars

C2_Witness ==
    /\ exit = "discarded"
    /\ ~running
    /\ finish_time # NoTime
    /\ Len(messages) = 1

\* C3: when the reply has ended, the run is still running and the response is
\* empty or all whitespace, the decision (a step that no button or widget
\* interrupts) halts the run, reports an error that names the agent and its model,
\* and leaves the history as it is.
C3_EmptyResponseHalts ==
    [][(pc = "decide" /\ running /\ AllSpaces(full_response)
          /\ pc' # "decide" /\ finish_time' = finish_time /\ exit' # "interrupted")
          => /\ ~running'
             /\ messages' = messages
             /\ notice' = [kind |-> "error", about |-> "empty",
                           agent |-> RoleAt(Len(messages)),
                           model |-> ModelOf(RoleAt(Len(messages)))]]_vars

C3_Witness ==
    /\ exit = "empty"
    /\ ~running
    /\ notice.kind = "error"
    /\ notice.about = "empty"
    /\ notice.model = <<"b">>

\* C4: a transport failure, before the first fragment or after some, once the script
\* run meets it (no button or widget interrupts first), halts the run, reports an
\* error and leaves the history as it is.
C4_TransportFailureHalts ==
    [][(pc = "stream" /\ body # << >> /\ Head(body) = NetErr
          /\ pc' # "stream" /\ finish_time' = finish_time /\ exit' # "interrupted")
          => /\ ~running'
             /\ pc' = "top"
             /\ messages' = messages
             /\ notice'.kind = "error"]_vars

C4_Witness ==
    /\ exit = "transport"
    /\ ~running
    /\ notice = [kind |-> "error", about |-> "transport"]
    /\ Len(messages) = 1

\* C5: the posted message list has one entry per message of the history, in order
\* and with its content, the last with role user and all others with role
\* assistant; the SSE protocol adds one leading system message, the line protocol
\* none.
C5_OutboundMessages ==
    request # NoRequest =>
        LET out == request.messages
            lead == IF request.provider = "Ollama" THEN 0 ELSE 1
        IN  /\ Len(out) = Len(messages) + lead
            /\ \A i \in 1..lead : out[i].role = "system"
            /\ \A i \in 1..Len(messages) :
                   /\ out[i + lead].content = messages[i].content
                   /\ out[i + lead].role =
                          IF i = Len(messages) THEN "user" ELSE "assistant"

C5_Witness ==
    /\ request # NoRequest
    /\ request.provider = "OpenAI"
    /\ Len(messages) = 2
    /\ Len(request.messages) = 3

\* C6: at a turn boundary of a running run the turn goes on only if the limit is 0
\* or the elapsed time is at most 60 seconds per minute of the limit, and the run is
\* ended by the limit only if the limit is positive and the elapsed time is
\* strictly greater; the ending posts no request and leaves the history as it is.
C6_TurnLimit ==
    [][(pc = "top" /\ running)
          => /\ pc' = "precall"
                 => ~(turn_limit > 0 /\ Elapsed > 60 * turn_limit)
             /\ (~running' /\ notice' # notice)
                 => /\ turn_limit > 0
                    /\ Elapsed > 60 * turn_limit
                    /\ messages' = messages
                    /\ request' = NoRequest
                    /\ pc' = "top"]_vars

C6_Witness ==
    /\ exit = "timeout"
    /\ ~running
    /\ notice.kind = "warning"
    /\ finish_time - start_time > 60

-----------------------------------------------------------------------------
(* Properties of the stream decoders (SpecStream) *)

\* a line that is not a well-formed payload of the protocol: not JSON, JSON that is
\* not an object, an SSE payload with an empty choices list or with a delta that is
\* missing or null, a line-protocol object whose message is not an object
Malformed(prov, line) ==
    \/ line.t \in {"text", "bytes"}
    \/ prov = "Ollama" /\ (line.t = "done" \/ (line.t = "json" /\ line.prefix))
    \/ line.t = "json" /\ line.v.k # "obj"
    \/ /\ prov # "Ollama"
       /\ line.t = "json"
       /\ HasKey(line.v, "choices")
       /\ line.v.f["choices"].k = "list"
       /\ \/ line.v.f["choices"].items = << >>
          \/ ~HasKey(line.v.f["choices"].items[1], "delta")
          \/ line.v.f["choices"].items[1].f["delta"].k = "null"
    \/ /\ prov = "Ollama"
       /\ line.t = "json"
       /\ ~line.prefix
       /\ HasKey(line.v, "message")
       /\ line.v.f["message"].k # "obj"

\* the step reads a line of the reply, or ends the reading
ReadsReply == << pc, body >>' # << pc, body >>

\* C7: a malformed line yields no fragment and does not end the turn: the decoder
\* goes on with the next line.
C7_MalformedNeverFatal ==
    [][(pc = "stream" /\ body # << >> /\ Malformed(request.provider, Head(body))
          /\ ReadsReply)
          => /\ pc' = "stream"
             /\ body' = Tail(body)
             /\ yielded' = yielded
             /\ exit' # "exception"]_vars

\* the text an SSE line carries: the non-empty delta.content of its first choice
SSEText(line) ==
    IF /\ line.t = "json"
       /\ HasKey(line.v, "choices")
       /\ line.v.f["choices"].k = "list"
       /\ line.v.f["choices"].items # << >>
       /\ HasKey(line.v.f["choices"].items[1], "delta")
       /\ HasKey(line.v.f["choices"].items[1].f["delta"], "content")
       /\ line.v.f["choices"].items[1].f["delta"].f["content"].k = "str"
       /\ line.v.f["choices"].items[1].f["delta"].f["content"].s # << >>
    THEN << line.v.f["choices"].items[1].f["delta"].f["content"] >>
    ELSE << >>

\* the texts of the lines before the first [DONE], or before the connection fails
RECURSIVE ExpectedSSE(_)
ExpectedSSE(lines) ==
    IF lines = << >> \/ Head(lines).t \in {"done", "neterr"}
    THEN << >>
    ELSE SSEText(Head(lines)) \o ExpectedSSE(Tail(lines))

\* C8: the fragments an SSE reply yields are the texts of its lines before the
\* first [DONE], in order: each line read adds its own text and nothing else, and
\* the reading ends only where no text is left to yield.
C8_SSEFragments ==
    [][(pc = "stream" /\ request.provider # "Ollama" /\ body # << >>
          /\ Head(body) # NetErr /\ ReadsReply)
          => IF pc' \in {"stream", "decide"}
             THEN yielded' \o ExpectedSSE(body') = yielded \o ExpectedSSE(body)
             ELSE ExpectedSSE(body) = << >>]_vars

-----------------------------------------------------------------------------
(* Properties of the model directory (SpecDirectory) *)

\* what a call of get_models hands to its caller: the value returned or the
\* exception raised
CallerGets(reply) ==
    LET r == get_models(ProviderName, reply) IN [raised |-> r.raised, ret |-> r.ret]

\* two calls raise the same exception or return the same list
SameOutcome(g, h) == g.raised = h.raised /\ (g.raised = None => g.ret = h.ret)

\* C9: when the listing fails in transport, get_models raises nothing, returns
\* the empty list, and what the caller gets differs from what it gets for every
\* listing that succeeds.
C9_FailureDistinguished ==
    listing = ListingFailure =>
        /\ exit # "exception"
        /\ models = << >>
        /\ \A reply \in Listings \ {ListingFailure} :
               ~SameOutcome(CallerGets(reply), CallerGets(ListingFailure))

\* the identifier of an entry that can be used: a non-empty text
Usable(e, key) == HasKey(e, key) /\ e.f[key].k = "str" /\ e.f[key].s # << >>

RECURSIVE ExpectedNames(_)
ExpectedNames(es) ==
    IF es = << >> THEN << >>
    ELSE (IF Usable(Head(es), "name") THEN << Head(es).f["name"] >> ELSE << >>)
             \o ExpectedNames(Tail(es))

RECURSIVE ExpectedIds(_)
ExpectedIds(es) ==
    IF es = << >> THEN << >>
    ELSE (IF Usable(Head(es), "id") THEN << Head(es).f["id"] >>
          ELSE IF Usable(Head(es), "name") THEN << Head(es).f["name"] >>
          ELSE << >>)
             \o ExpectedIds(Tail(es))

\* C10: a listing that succeeds gives the identifiers of its entries in order,
\* without the entries that have none, and no entry makes the call fail: the names
\* of {models: [...]} for the line protocol, the ids (or names) of {data: [...]}
\* and of the bare list alike for the SSE protocol.
C10_Normalisation ==
    /\ (provider = "Ollama" /\ listing.t = "json" /\ HasKey(listing.v, "models")
           /\ listing.v.f["models"].k = "list")
           => /\ exit # "exception"
              /\ models = ExpectedNames(listing.v.f["models"].items)
    /\ (provider # "Ollama" /\ listing.t = "json" /\ HasKey(listing.v, "data")
           /\ listing.v.f["data"].k = "list")
           => /\ exit # "exception"
              /\ models = ExpectedIds(listing.v.f["data"].items)
    /\ (provider # "Ollama" /\ listing.t = "json" /\ listing.v.k = "list")
           => /\ exit # "exception"
              /\ models = ExpectedIds(listing.v.items)

-----------------------------------------------------------------------------
(* Properties of the default selection (SpecDirectory) *)

\* the first entry of the list that differs from its head, or the head, or nothing
SecondDistinct(ms) ==
    LET others == { i \in 1..Len(ms) : ms[i] # ms[1] } IN
    IF others # {} THEN ms[CHOOSE i \in others : \A j \in others : i <= j]
    ELSE IF ms # << >> THEN ms[1] ELSE << >>

\* C11: once the models are listed, each a non-empty text, the first agent's default is the first entry
\* and the second agent's default is the first entry that differs from it (the first
\* entry if there is no other); with an empty list both are empty and the inputs are
\* free text.
C11_DefaultSelection ==
    (exit = "listed" /\ \A i \in 1..Len(models) :
                            models[i].k = "str" /\ models[i].s # << >>) =>
        /\ agent1_model = (IF models # << >> THEN models[1] ELSE << >>)
        /\ agent2_model = SecondDistinct(models)
        /\ models = << >> => FreeTextEntry(models) /\ agent1_model = << >>

-----------------------------------------------------------------------------
(* Properties of the settings (SpecSettings) *)

\* the provider kind, base url and credential that a request built from the
\* settings ss = << provider, ollama_host, oa_base_url, oa_api_key >> carries
ConfigOf(ss) ==
    IF ss[1] = "Ollama"
    THEN [provider |-> "Ollama", base_url |-> ss[2], api_key |-> None]
    ELSE [provider |-> "OpenAI", base_url |-> ss[3],
          api_key |-> IF ss[4] # "" THEN ss[4] ELSE None]

\* C12: the request of every turn of a run carries the provider kind, base url and
\* credential of the settings that were in effect when the run started, whatever
\* was entered in the settings panel since.
C12_ConfigImmutable ==
    request # NoRequest =>
        [provider |-> request.provider, base_url |-> request.base_url,
         api_key |-> request.api_key] = ConfigOf(start_settings)

-----------------------------------------------------------------------------
(* Further properties of the session (Spec) *)

\* C13: a step of the turn taken while generate_response streams the reply, other
\* than a click on Start or Stop (which set the start or end instant), leaves
\* running, the start instant and the end instant as they are: the adapter never
\* changes the run state, its transport-failure path included.
C13_AdapterKeepsRunState ==
    [][(pc = "stream" /\ start_time' = start_time /\ finish_time' = finish_time)
          => running' = running]_vars

\* C14: a stop set before the call makes the turn end without a request; a stop set
\* while the reply streams lets at most one further fragment in, after which the
\* rest of the reply is not read.
C14_CooperativeStop ==
    [][/\ (pc = "precall" /\ ~running)
           => (pc' # "stream" /\ request' = NoRequest)
       /\ (pc = "stream" /\ ~running)
           => /\ Len(yielded') <= Len(yielded) + 1
              /\ yielded' # yielded => (pc' # "stream" /\ body' = << >>)]_vars

C14_Witness ==
    /\ pc = "stream"
    /\ ~running
    /\ finish_time # NoTime
    /\ Len(yielded) = 1
    /\ Len(body) = 1
    /\ DecodeLine(request.provider, Head(body)).o = "yield"

\* C15: every step that makes a run active, the first start or a restart after a
\* stop, a timeout or a failure, replaces the history by exactly one message of
\* Agent 1 whose content is the topic as it was typed, records the start instant
\* and clears the end instant; the agent of the next turn is Agent 2.
C15_StartReseeds ==
    [][(~running /\ running')
          => /\ messages' = << [role |-> "Agent 1", content |-> topic'] >>
             /\ start_time' = now
             /\ finish_time' = NoTime
             /\ pc' = "top"
             /\ CurrentAgentName(messages') = "Agent 2"]_vars

C15_Witness ==
    /\ running
    /\ messages = << [role |-> "Agent 1", content |-> topic] >>
    /\ start_time > 0
    /\ finish_time = NoTime
    /\ pc = "precall"
    /\ current_agent_name = "Agent 2"

\* a turn has failed, by a transport error or by an empty response, and no start
\* has followed
Failed == exit \in {"transport", "empty"}

\* C16: once a turn has failed the run is over and no request is in flight; a
\* request is posted only by a running run that has not failed, and a run becomes
\* active again only by a start, which reseeds the history.
C16_NoRetry ==
    [][/\ Failed => (~running /\ request = NoRequest /\ pc \in {"top", "wait"})
       /\ (request' # request /\ request' # NoRequest) => (running /\ ~Failed)
       /\ (Failed /\ running') => (exit' = "none" /\ Len(messages') = 1)]_vars

C16_Witness ==
    /\ exit = "empty"
    /\ ~running
    /\ pc = "wait"
    /\ Len(messages) = 2
    /\ request = NoRequest

\* C17: a step leaves the history as it is, or appends one message at its end and
\* keeps the messages before it, or is a start, which alone replaces the history.
C17_AppendOnly ==
    [][\/ messages' = messages
       \/ /\ Len(messages') = Len(messages) + 1
          /\ SubSeq(messages', 1, Len(messages)) = messages
       \/ /\ ~running
          /\ running'
          /\ Len(messages') = 1]_vars

C17_Witness ==
    /\ exit = "appended"
    /\ Len(messages) = 2
    /\ messages[1] = [role |-> "Agent 1", content |-> topic]
    /\ running

\* the time limit has run out
Overdue == turn_limit > 0 /\ Elapsed > 60 * turn_limit

\* C18: the limit ends a run only at a turn boundary, never within a turn; a reply
\* that ends after the limit has run out, with a response that is not blank and no
\* stop, is appended and the run goes on to the boundary, where the limit ends it.
C18_LimitAtBoundaries ==
    [][/\ (InTurn /\ running)
           => ~(notice' # notice /\ notice'.kind = "warning") /\ exit' # "timeout"
       /\ (pc = "decide" /\ running /\ Overdue /\ ~AllSpaces(full_response)
              /\ pc' # "decide" /\ finish_time' = finish_time
              /\ exit' # "interrupted")
           => /\ messages' = Append(messages,
                                 [role |-> RoleAt(Len(messages)),
                                  content |-> full_response])
              /\ running'
              /\ pc' = "top"
       /\ (pc = "top" /\ running /\ Overdue /\ pc' # "top")
           => FALSE]_vars

C18_Witness ==
    /\ exit = "appended"
    /\ running
    /\ pc = "top"
    /\ Overdue
    /\ Len(messages) = 2

\* C19: while a run is active the end instant is unset; only a stop or the time
\* limit sets it, ending the run; a run that an empty response or a transport
\* error ended has no end instant.
C19_FinishTime ==
    [][/\ running => finish_time = NoTime
       /\ (finish_time' # finish_time /\ finish_time' # NoTime)
           => /\ running
              /\ ~running'
              /\ finish_time' = now
              /\ (exit' = "timeout" \/ notice' = notice)
       /\ (running /\ ~running' /\ exit' \in {"transport", "empty"})
           => finish_time' = NoTime]_vars

C19_Witness ==
    /\ exit = "transport"
    /\ ~running
    /\ finish_time = NoTime
    /\ start_time # NoTime
    /\ Len(messages) = 2

RECURSIVE Concat(_)
Concat(fs) == IF fs = << >> THEN << >> ELSE Head(fs).s \o Concat(Tail(fs))

\* C20: the seed of the history is not empty, every later message holds a
\* character that is not whitespace, and a message is appended only when the reply
\* has been read to its end, with the fragments of that reply, in order, as content.
C20_MessageContent ==
    [][/\ messages # << >> => messages[1].content # << >>
       /\ \A i \in 2..Len(messages) : ~AllSpaces(messages[i].content)
       /\ (Len(messages') = Len(messages) + 1 /\ Len(messages) >= 1)
           => /\ body = << >>
              /\ yielded # << >>
              /\ messages'[Len(messages')].content = Concat(yielded)]_vars

C20_Witness ==
    /\ exit = "appended"
    /\ Len(messages) = 2
    /\ Len(messages[2].content) = 2
    /\ messages[2].content[1] = " "

====
